---- MODULE Spec2Model ----
(***************************************************************************)
(* Streaming generation pipeline of the Ollama chat client.                *)
(*                                                                         *)
(*   OllamaAPI.generate_stream   src/ollama_api.py  (a generator)          *)
(*   MessageThread.run           src/workers.py     (its consumer)         *)
(*   ChatHistory.add_message_chunk, two revisions:                         *)
(*        src/chat_window.py and src/widgets/chat_history.py               *)
(*   ChatWindow.send_message and its slots   src/chat_window.py            *)
(*                                                                         *)
(* Text is a sequence of characters, so that concatenation, startswith     *)
(* and split are computed and not assumed.  The server and the transport   *)
(* are the environment: what requests.post and iter_lines produce next is  *)
(* drawn with \E in each action.                                           *)
(***************************************************************************)
EXTENDS Integers, Sequences, FiniteSets, TLC

\* ------------------------------------------------------------------ bounds

\* Lines one generate_stream call reads, primary and recovery pass together.
MaxLines == 3

\* MessageThread objects one ChatWindow makes.
MaxThreads == 3

\* send_message calls nested in one another through processEvents.
MaxFrames == 2

\* Seconds the clock is followed for.
MaxClock == 3

\* The calls followed to their completion.
MaxGenerations == 2

\* --------------------------------------------------------------- constants

\* recovery_data['options']['num_ctx'] = min(..., 1024)
RecoveryCtxCap == 1024

\* recovery_data['options']['num_predict'] = min(..., 512)
RecoveryPredictCap == 512

\* timeout=120 of the recovery request
RecoveryTimeout == 120

\* base_timeout = 60
BaseTimeout == 60

\* ------------------------------------------------------------------- text

Min(a, b) == IF a <= b THEN a ELSE b

Max(a, b) == IF a >= b THEN a ELSE b

\* The fragments a response line can carry: "Hel", "lo", " x" and "".
Hel == <<"H", "e", "l">>

Lo == <<"l", "o">>

SpX == <<" ", "x">>

Empty == <<>>

Frags == {Hel, Lo, SpX, Empty}

RECURSIVE Concat(_)
\* "".join(seq): the concatenation of a sequence of texts.
Concat(seq) == IF seq = <<>> THEN <<>> ELSE Head(seq) \o Concat(Tail(seq))

\* len(s.split()): the number of maximal runs of non-blank characters.
WordCount(s) ==
    Cardinality({i \in 1..Len(s) : s[i] # " " /\ (i = 1 \/ s[i - 1] = " ")})

RECURSIVE SumWords(_)
\* sum(len(chunk.split()) for chunk in full_response)
SumWords(seq) ==
    IF seq = <<>> THEN 0 ELSE WordCount(Head(seq)) + SumWords(Tail(seq))

\* ------------------------------------------------------------ the server

\* One line of the response body, by what json.loads and the shape tests of
\* generate_stream make of it:
\*   response  {"response": "<text>"}            message  {"message": {"content": "<text>"}}
\*   blank     an empty keep-alive line          garbage  not JSON
\*   nondict   JSON, but no object ([1], 5)      nokeys   an object with neither key
\*   nullmsg   {"message": null}: 'content' in None raises TypeError
Line(k, t) == [kind |-> k, text |-> t]

ValidLines == {Line(k, t) : k \in {"response", "message"}, t \in Frags}

SkippedKinds == {"blank", "garbage", "nondict", "nokeys"}

OtherLines == {Line(k, Empty) : k \in SkippedKinds \cup {"nullmsg"}}

Lines == ValidLines \cup OtherLines

\* What a line carries for the reader of the protocol: the fragment of a valid
\* line (one of the two shapes, with a text), or nothing.
Carried(pass, line) ==
    [pass |-> pass, valid |-> line \in ValidLines,
     text |-> IF line \in ValidLines THEN line.text ELSE Empty]

\* What requests.post(...) / raise_for_status() can end in.
OpenOutcomes == {"ok", "Timeout", "ConnectionError", "HTTPError"}

\* What iter_lines() can raise while the body is read.
ReadErrors == {"Timeout", "ConnectionError"}

\* ------------------------------------------------------------- the caller

ModelNames == {"qwen3:8b", "llama3"}

\* 'qwen3' in model.lower()
IsQwen3(m) == m = "qwen3:8b"

None == "None"

\* num_ctx of the hardware defaults: _optimize_for_memory writes 1024 or 4096.
DefaultCtxChoices == {1024, 4096}

\* 'num_predict': 256 of _get_model_specific_settings
DefaultNumPredict == 256

\* The keywords a caller may pass, and the system prompts: empty, or a text.
KwKeys == {"num_ctx", "max_tokens", "system"}

SystemTexts == {"", "be brief"}

\* The caller's num_ctx lies below the recovery cap, its max_tokens above.
KwValue(k, s) ==
    CASE k = "num_ctx" -> 512
      [] k = "max_tokens" -> 2048
      [] OTHER -> s

\* **kwargs: a dictionary holding only the keys the caller passed.
Kwargs == {[k \in K |-> KwValue(k, s)] : K \in SUBSET KwKeys, s \in SystemTexts}

VARIABLES
    default_runtime_settings,  \* OllamaAPI.default_runtime_settings (num_ctx)
    default_model_settings,    \* OllamaAPI.default_model_settings (num_predict)
    pc,          \* where generate_stream stands: idle, primary, timeout, recovery, returned, raised
    model,       \* the model argument of the call
    data,        \* the request body built by the call
    requests,    \* the HTTP chat requests the call has issued, in order
    received,    \* what each line read so far carried, with the pass it was read in
    yielded,     \* the fragments the generator has yielded
    opened,      \* what requests.post of the primary request ended in
    cause,       \* e: the Timeout that started the recovery
    recovery_error,  \* recovery_error: the exception that ended the recovery
    full_response,  \* MessageThread.run: the non-empty chunks so far
    events,      \* the signals MessageThread.run has emitted, in order
    quit_at,     \* closeEvent: whether quit() was called, and what had been read then
    current_model,   \* ChatWindow.current_model
    input_text,      \* message_input.toPlainText().strip()
    read_only,       \* message_input.isReadOnly()
    send_enabled,    \* send_button.isEnabled()
    frames,          \* send_message calls standing in processEvents, innermost last
    message_thread,  \* ChatWindow.message_thread
    threads,         \* every MessageThread the window has made: unborn, running, done
    signals,         \* error signals queued for the window, in order
    crashed,         \* the process was aborted by Qt
    system_info,       \* SystemDetector.system_info
    optimal_settings,  \* OllamaAPI.optimal_settings: server, runtime, model
    previous_settings, \* optimal_settings as it was before the last synchronisation
    user_settings,     \* the argument of the last sync_with_user_settings
    sync_result,       \* what the last sync_with_user_settings returned
    restart,           \* whether the last synchronisation restarted the server
    sent,              \* the request body built since the settings last changed
    environment,       \* what the machine answered to the last detection
    now,                   \* time.time(), in whole seconds
    timing,                \* where the call whose metrics are followed stands
    start_time,            \* start_time of that call
    first_token_time,      \* first_token_time: <<>> is None, <<t>> is t
    output_tokens,         \* output_tokens
    lines_read,            \* the fragments that call has received
    last_generation_stats, \* OllamaAPI.last_generation_stats, EmptyDict before
    call_model,            \* the model argument of that call
    yielded_tokens,        \* the whitespace tokens of the fragments that call has yielded
    generations,           \* the calls that have run to completion
    heap,            \* the dictionaries and lists alive, by the name that refers to them
    locals,          \* what runtime_settings, model_settings and recovery_data refer to
    frame_pc,        \* where the call whose objects are followed stands
    frame_args,      \* the model and the keywords of that call
    frame_requests,  \* the request bodies that call has sent, as they were sent
    recovered        \* the last call that completed by its recovery request

apiVars == <<default_runtime_settings, default_model_settings>>

callVars == <<pc, model, data, requests, opened, received, yielded, cause,
              recovery_error, full_response, events>>

winVars == <<current_model, input_text, read_only, send_enabled, frames,
             message_thread, threads, signals, crashed>>

\* What a generate_stream call and its MessageThread.run leave alone.
optVars == <<system_info, optimal_settings, previous_settings, user_settings,
             sync_result, restart, sent, environment>>

statVars == <<now, timing, start_time, first_token_time, output_tokens,
              lines_read, last_generation_stats, call_model, yielded_tokens,
              generations>>

frameVars == <<heap, locals, frame_pc, frame_args, frame_requests, recovered>>

\* What a generate_stream call and its MessageThread.run leave alone; the
\* metrics of a call are followed apart from its lines, under SpecStats.
restVars == <<apiVars, quit_at, winVars, optVars, statVars, frameVars>>

vars == <<apiVars, callVars, quit_at, winVars, optVars, statVars, frameVars>>

\* ------------------------------------------------- generate_stream: request

NoData == [num_ctx |-> 0, num_predict |-> 0, system |-> FALSE]

\* Lines 147-197: the options of the request body.  A keyword replaces the
\* default only when its key is one of the defaults' keys; max_tokens is none of
\* them and is read from the remaining keywords.
BuildData(kw) ==
    [num_ctx |-> IF "num_ctx" \in DOMAIN kw THEN kw.num_ctx
                 ELSE default_runtime_settings.num_ctx,
     num_predict |-> IF "max_tokens" \in DOMAIN kw THEN kw.max_tokens
                     ELSE default_model_settings.num_predict,
     system |-> kw.system # ""]

\* Lines 228-231: the deadline of the primary request.
total_timeout(m, num_ctx) ==
    BaseTimeout + (IF IsQwen3(m) THEN 30 ELSE 15) + Max(1, num_ctx \div 1000)

\* The recovery body with num_predict left as it was.
RecoveryData_CtxOnly(d) == [d EXCEPT !.num_ctx = Min(d.num_ctx, RecoveryCtxCap)]

\* Lines 328-330: the body of the recovery request.
RecoveryData(d) ==
    [d EXCEPT !.num_ctx = Min(d.num_ctx, RecoveryCtxCap),
              !.num_predict = Min(d.num_predict, RecoveryPredictCap)]

Request(pass, d, timeout) ==
    [pass |-> pass, num_ctx |-> d.num_ctx, num_predict |-> d.num_predict,
     system |-> d.system, timeout |-> timeout]

\* --------------------------------------------------- generate_stream: lines

Yield(t) == [act |-> "yield", text |-> t, exc |-> None]

Skip == [act |-> "skip", text |-> Empty, exc |-> None]

Raise(e) == [act |-> "raise", text |-> Empty, exc |-> e]

\* Lines 245-289, one line of the primary pass: a blank line is passed over, a
\* JSONDecodeError and a non-dict continue, either shape yields its text, an
\* object with neither key is logged, any other exception is raised again.
ParsePrimary(line) ==
    CASE line.kind = "blank" -> Skip
      [] line.kind = "garbage" -> Skip
      [] line.kind = "nondict" -> Skip
      [] line.kind = "response" -> Yield(line.text)
      [] line.kind = "message" -> Yield(line.text)
      [] line.kind = "nullmsg" -> Raise("TypeError")
      [] OTHER -> Skip

\* Lines 342-351, one line of the recovery pass: only JSONDecodeError is caught
\* in the loop; any other exception leaves it.
ParseRecovery(line) ==
    CASE line.kind = "blank" -> Skip
      [] line.kind = "garbage" -> Skip
      [] line.kind = "response" -> Yield(line.text)
      [] line.kind = "message" -> Yield(line.text)
      [] line.kind = "nullmsg" -> Raise("TypeError")
      [] OTHER -> Skip

\* ------------------------------------------------------------ the errors

\* A first except clause that catches every RequestException.
IsTimeout_AnyRequestException(exc) == TRUE

\* Line 322, except requests.exceptions.Timeout: ConnectTimeout and ReadTimeout
\* are caught here, every other RequestException at line 360.
IsTimeout(exc) == exc = "Timeout"

NoErr == [kind |-> "none", causes |-> <<>>]

\* raise Exception(f"Ошибка API: {str(e)}")                       line 362
ApiError(e) == [kind |-> "api", causes |-> <<e>>]

\* raise Exception(f"Ошибка генерации: {str(e)}")                 line 366
GenerationError(e) == [kind |-> "generation", causes |-> <<e>>]

\* The recovery error reporting the recovery failure alone.
RecoveryError_LastOnly(e, r) == [kind |-> "recovery", causes |-> <<r>>]

\* raise Exception(f"Ошибка API и восстановления: {e} -> {recovery_error}")  line 358
RecoveryError(e, r) == [kind |-> "recovery", causes |-> <<e, r>>]

\* ------------------------------------------------------- MessageThread.run

Event(sig, t, n, err) == [sig |-> sig, text |-> t, tokens |-> n, err |-> err]

ChunkEvent(t) == Event("message_chunk", t, 0, NoErr)

\* Lines 63-65: a chunk the generator yielded; an empty one is passed over.
KeepChunk(chunk) == chunk # Empty

AfterChunkResponse(fr, chunk) == IF KeepChunk(chunk) THEN Append(fr, chunk) ELSE fr

\* The chunk signalled ahead of the earlier ones.
AfterChunkEvents_Prepend(ev, chunk) ==
    IF KeepChunk(chunk) THEN <<ChunkEvent(chunk)>> \o ev ELSE ev

AfterChunkEvents(ev, chunk) ==
    IF KeepChunk(chunk) THEN Append(ev, ChunkEvent(chunk)) ELSE ev

\* Lines 67-76: the generator is exhausted.
AfterReturn(ev, fr) ==
    (IF fr # <<>>
      THEN Append(ev, Event("performance_info", Empty, SumWords(fr), NoErr))
      ELSE ev) \o <<Event("finished", Empty, 0, NoErr)>>

\* The generator raised, and finished is emitted after error.
AfterRaise_AndFinished(ev, err) ==
    ev \o <<Event("error", Empty, 0, err), Event("finished", Empty, 0, NoErr)>>

\* Lines 77-78: the generator raised.
AfterRaise(ev, err) == Append(ev, Event("error", Empty, 0, err))

\* ------------------------------------------------------------ ChatHistory

\* ChatHistory.__init__ of src/chat_window.py; text is what insertText has put
\* into the document for the streamed message.
ChatHistoryInit ==
    [response_start_pos |-> None, current_message_html |-> <<>>,
     is_system_message |-> FALSE, text |-> <<>>]

\* The opening '<div ...><div style="white-space: pre-wrap; ...">' of a message.
OpenDiv == <<"<", "d", "i", "v", ">">>

StartsWithSpace(t) == t # <<>> /\ t[1] = " "

EndsWithSpace(t) == t # <<>> /\ t[Len(t)] = " "

\* ChatHistory.add_message_chunk of src/chat_window.py, lines 106-134.
add_message_chunk(h, chunk) ==
    IF chunk = Empty \/ h.is_system_message
      THEN h
      ELSE LET h1 == IF h.response_start_pos = None
                       THEN [h EXCEPT !.response_start_pos = "pos",
                                      !.current_message_html = OpenDiv]
                       ELSE h
               c == IF /\ chunk # Empty
                       /\ ~StartsWithSpace(chunk)
                       /\ ~EndsWithSpace(h1.current_message_html)
                      THEN <<" ">> \o chunk
                      ELSE chunk
           IN [h1 EXCEPT !.text = @ \o c]

\* ChatHistory.__init__ of src/widgets/chat_history.py; current_message_text is
\* the text of the message in progress.
WidgetHistoryInit ==
    [response_start_pos |-> None, current_message_text |-> <<>>,
     is_system_message |-> FALSE, text |-> <<>>]

\* ChatHistory.finish_chunked_message of src/widgets/chat_history.py.
finish_chunked_message(h) ==
    IF h.response_start_pos # None
      THEN [h EXCEPT !.text = @ \o <<"\n">>, !.response_start_pos = None,
                     !.current_message_text = <<>>]
      ELSE h

\* add_message_chunk without its first test: an empty chunk reaches line 87.
widgets_add_message_chunk_NoGuard(h, chunk) ==
    LET h1 == IF h.response_start_pos = None
                THEN [h EXCEPT !.response_start_pos = "pos",
                               !.current_message_text = <<>>]
                ELSE h
    IN IF chunk = Empty
         THEN finish_chunked_message(h1)
         ELSE [h1 EXCEPT !.text = @ \o chunk, !.current_message_text = @ \o chunk]

\* ChatHistory.add_message_chunk of src/widgets/chat_history.py, lines 73-93.
widgets_add_message_chunk(h, chunk) ==
    IF chunk = Empty \/ h.is_system_message
      THEN h
      ELSE LET h1 == IF h.response_start_pos = None
                       THEN [h EXCEPT !.response_start_pos = "pos",
                                      !.current_message_text = <<>>]
                       ELSE h
           IN IF chunk = Empty
                THEN finish_chunked_message(h1)
                ELSE [h1 EXCEPT !.text = @ \o chunk,
                                !.current_message_text = @ \o chunk]

RECURSIVE on_message_chunks(_, _)
\* ChatWindow.on_message_chunk, once for each chunk signalled, in order.
on_message_chunks(h, chunks) ==
    IF chunks = <<>> THEN h
    ELSE on_message_chunks(add_message_chunk(h, Head(chunks)), Tail(chunks))

RECURSIVE widgets_on_message_chunks(_, _)
\* The same slot in front of the ChatHistory of src/widgets/chat_history.py.
widgets_on_message_chunks(h, chunks) ==
    IF chunks = <<>> THEN h
    ELSE widgets_on_message_chunks(widgets_add_message_chunk(h, Head(chunks)),
                                   Tail(chunks))

IsChunk(e) == e.sig = "message_chunk"

\* The texts of the message_chunk signals emitted, in order.
ChunkTexts(ev) ==
    LET chunks == SelectSeq(ev, IsChunk) IN [i \in 1..Len(chunks) |-> chunks[i].text]

\* ------------------------------------------------------------- ChatWindow

\* self.message_thread = None
NoThread == 0

ThreadIds == 1..MaxThreads

\* What the user can have typed, stripped.
InputTexts == {"", "hi"}

\* The texts of the model combo box: no model, or a model.
ModelTexts == {"", "llama3"}

\* closeEvent has not called quit().
NotQuit == [requested |-> FALSE, lines |-> 0, chunks |-> 0]

\* The MessageThread objects made so far.
Made == Cardinality({t \in ThreadIds : threads[t] # "unborn"})

\* run() of the thread has been started and has not returned.
Active(t) == threads[t] = "running"

\* ---------------------------------------------------------- SystemDetector

\* 'intel' in system.get('processor', '').lower(), for the processor names
\* platform.processor() is taken from.
HasIntel(processor) == processor \in {"Intel64 Family 6"}

\* What _detect_gpu can report: the kind, the memory in tenths of a GB, and
\* whether the adapter is a discrete one.
GpuReports ==
    {[gpu |-> "apple_silicon", gpu_memory_gb |-> 80, gpu_type |-> "integrated"],
     [gpu |-> "intel_uhd", gpu_memory_gb |-> 15, gpu_type |-> "integrated"],
     [gpu |-> "nvidia", gpu_memory_gb |-> 80, gpu_type |-> "discrete"],
     [gpu |-> "nvidia", gpu_memory_gb |-> 40, gpu_type |-> "discrete"],
     [gpu |-> "amd", gpu_memory_gb |-> 80, gpu_type |-> "discrete"],
     [gpu |-> "unknown", gpu_memory_gb |-> 0, gpu_type |-> "unknown"],
     [gpu |-> "none", gpu_memory_gb |-> 0, gpu_type |-> "unknown"]}

\* What platform.system() and platform.processor() report together.
Hosts ==
    {[platform |-> "Darwin", processor |-> "Intel64 Family 6"],
     [platform |-> "Darwin", processor |-> "i386"],
     [platform |-> "Linux", processor |-> "Intel64 Family 6"]}

\* system_info of a machine; memory in GB.
Machine(h, c, m, g) ==
    [platform |-> h.platform, processor |-> h.processor, cpu_count |-> c,
     memory_gb |-> m, gpu |-> g.gpu, gpu_memory_gb |-> g.gpu_memory_gb,
     gpu_type |-> g.gpu_type]

\* The machines of the model: every host, core count and memory size without
\* a usable GPU, and every GPU report on two of them.
Profiles ==
    {Machine(h, c, m, [gpu |-> "unknown", gpu_memory_gb |-> 0,
                       gpu_type |-> "unknown"]) :
        h \in Hosts, c \in {2, 8}, m \in {8, 16, 32}}
    \cup
    {Machine(h, 8, 16, g) :
        h \in {[platform |-> "Darwin", processor |-> "i386"],
               [platform |-> "Linux", processor |-> "Intel64 Family 6"]},
        g \in GpuReports}

\* A dictionary is a function from its keys; {} has none.
EmptyDict == [k \in {} |-> 0]

\* dict.update(other)
Update(d, other) ==
    [k \in DOMAIN d \cup DOMAIN other |->
        IF k \in DOMAIN other THEN other[k] ELSE d[k]]

\* dict.get(key, default)
Get(d, key, default) == IF key \in DOMAIN d THEN d[key] ELSE default

\* What a machine answers to the detection: sys.platform, platform.machine(),
\* os.cpu_count(), whether platform and psutil answer at all, what
\* system_profiler prints or how it fails, what WMI lists as the first video
\* controller (its memory in tenths of a GB), what nvidia-smi prints in MB or
\* how it fails, and what lspci prints or how it fails.
Environments ==
    LET Environment(p, mach, c, ok, prof, video, smi, lspci) ==
            [sys_platform |-> p, machine |-> mach, cpu_count |-> c, base_ok |-> ok,
             profiler |-> prof, video |-> video, nvidia_smi |-> smi, lspci |-> lspci]
        NoVideo == [state |-> "unused", name |-> "", ram |-> 0]
        ProfilerOutcomes ==
            {"raises", "fails", "apple m1", "apple m2", "apple m4", "other"}
        VideoControllers ==
            {[state |-> st, name |-> "", ram |-> 0] : st \in {"raises", "empty"}}
            \cup {[state |-> "found", name |-> n, ram |-> r] :
                     n \in {"nvidia geforce", "amd radeon", "microsoft basic"},
                     r \in {0, 10, 40}}
        NvidiaSmiOutcomes == {"raises", "fails", "4096", "8192"}
        LspciOutcomes == {"raises", "fails", "amd", "other"}
    IN {Environment("darwin", mach, c, ok, prof, NoVideo, "unused", "unused") :
            mach \in {"arm64", "x86_64"}, c \in {2, 8}, ok \in BOOLEAN,
            prof \in ProfilerOutcomes}
       \cup {Environment("win32", "AMD64", c, ok, "unused", video, "unused", "unused") :
            c \in {2, 8}, ok \in BOOLEAN, video \in VideoControllers}
       \cup {Environment("linux", "x86_64", c, ok, "unused", NoVideo, smi, lspci) :
            c \in {2, 8}, ok \in BOOLEAN, smi \in NvidiaSmiOutcomes,
            lspci \in LspciOutcomes}

UnknownGpu == [gpu |-> "unknown", gpu_memory_gb |-> 0, gpu_type |-> "unknown"]

\* SystemDetector._detect_macos_gpu; memory in tenths of a GB.
_detect_macos_gpu(env) ==
    IF env.machine = "arm64"
      THEN IF env.profiler \in {"apple m1", "apple m2", "apple m4"}
             THEN [gpu |-> "apple_silicon",
                   gpu_memory_gb |-> IF env.profiler = "apple m1" THEN 80
                                     ELSE IF env.profiler = "apple m4" THEN 160
                                     ELSE 80,
                   gpu_type |-> "integrated"]
             ELSE [gpu |-> "intel_iris", gpu_memory_gb |-> 15,
                   gpu_type |-> "integrated"]
      ELSE [gpu |-> "intel_uhd", gpu_memory_gb |-> 15, gpu_type |-> "integrated"]

\* SystemDetector._detect_windows_gpu
_detect_windows_gpu(env) ==
    IF env.video.state = "found"
      THEN [gpu |-> IF env.video.name = "nvidia geforce" THEN "nvidia"
                    ELSE IF env.video.name = "amd radeon" THEN "amd"
                    ELSE "intel",
            gpu_memory_gb |-> env.video.ram,
            gpu_type |-> IF env.video.ram > 20 THEN "discrete" ELSE "integrated"]
      ELSE UnknownGpu

\* round(int(memory_str) / 1024, 1), in tenths of a GB
MegabytesToTenths(memory_str) ==
    IF memory_str = "8192" THEN 80 ELSE 40

\* SystemDetector._detect_linux_gpu
_detect_linux_gpu(env) ==
    IF env.nvidia_smi \notin {"raises", "fails"}
      THEN [gpu |-> "nvidia",
            gpu_memory_gb |-> MegabytesToTenths(env.nvidia_smi),
            gpu_type |-> "discrete"]
      ELSE IF env.lspci = "amd"
             THEN [gpu |-> "amd", gpu_memory_gb |-> 20, gpu_type |-> "discrete"]
             ELSE UnknownGpu

\* SystemDetector._detect_gpu
_detect_gpu(env) ==
    IF env.sys_platform = "darwin" THEN _detect_macos_gpu(env)
    ELSE IF env.sys_platform = "win32" THEN _detect_windows_gpu(env)
    ELSE _detect_linux_gpu(env)

\* platform.system() and platform.processor() of the machine.
PlatformOf(env) ==
    IF env.sys_platform = "darwin" THEN "Darwin"
    ELSE IF env.sys_platform = "win32" THEN "Windows"
    ELSE "Linux"

ProcessorOf(env) ==
    IF env.sys_platform = "darwin"
      THEN (IF env.machine = "arm64" THEN "arm" ELSE "i386")
      ELSE IF env.sys_platform = "win32" THEN "Intel64 Family 6" ELSE "x86_64"

\* SystemDetector._detect_system: the profile, or the fixed one of the except
\* clause, which has no gpu_memory_gb and no gpu_type.
_detect_system(env) ==
    IF env.base_ok
      THEN Update([platform |-> PlatformOf(env), processor |-> ProcessorOf(env),
                   cpu_count |-> env.cpu_count, memory_gb |-> 16],
                  _detect_gpu(env))
      ELSE [platform |-> "unknown", processor |-> "unknown", cpu_count |-> 1,
            memory_gb |-> 4, gpu |-> "none"]

\* ---------------------------------------------------------- OllamaOptimizer

RECURSIVE str(_)
\* str(n) of a natural number.
str(n) ==
    LET digit == <<"0", "1", "2", "3", "4", "5", "6", "7", "8", "9">>[(n % 10) + 1]
    IN IF n < 10 THEN digit ELSE str(n \div 10) \o digit

\* OllamaOptimizer._optimize_for_cpu
_optimize_for_cpu(system) ==
    IF system.platform = "Darwin" /\ HasIntel(system.processor)
      THEN [server |-> [OLLAMA_NUM_PARALLEL |-> "1",
                        OLLAMA_MAX_LOADED_MODELS |-> "1",
                        OLLAMA_CPU_THREADS |-> str(Min(system.cpu_count, 4)),
                        OLLAMA_MAX_QUEUE |-> "1",
                        OLLAMA_RUNNERS_DIR |-> "/tmp/ollama-runners"],
            runtime |-> [num_thread |-> Min(system.cpu_count, 4),
                         num_ctx |-> 512,
                         num_predict |-> 256,
                         num_batch |-> 1,
                         num_keep |-> 0]]
      ELSE [server |-> [OLLAMA_NUM_PARALLEL |-> str(Min(system.cpu_count \div 2, 2)),
                        OLLAMA_MAX_LOADED_MODELS |-> "1",
                        OLLAMA_CPU_THREADS |-> str(system.cpu_count)],
            runtime |-> [num_thread |-> system.cpu_count,
                         num_ctx |-> IF system.cpu_count > 4 THEN 4096 ELSE 2048]]

\* The memory, in tenths of a GB, an NVIDIA adapter must exceed to be used.
SufficientGpuMemory == 40

\* OllamaOptimizer._optimize_for_gpu, with gpu = system.get('gpu', 'none') and
\* gpu_memory = system.get('gpu_memory_gb', 0).
_optimize_for_gpu(system) ==
    LET gpu == Get(system, "gpu", "none")
        gpu_memory == Get(system, "gpu_memory_gb", 0)
    IN CASE gpu = "apple_silicon" ->
              [server |-> [OLLAMA_FLASH_ATTENTION |-> "1", OLLAMA_LOW_VRAM |-> "false"],
               runtime |-> [num_gpu |-> 1, gpu_layers |-> -1, low_vram |-> FALSE]]
         [] gpu = "nvidia" /\ gpu_memory > SufficientGpuMemory ->
              [server |-> [OLLAMA_FLASH_ATTENTION |-> "1", OLLAMA_LOW_VRAM |-> "false"],
               runtime |-> [num_gpu |-> 1, gpu_layers |-> -1, low_vram |-> FALSE]]
         [] gpu # "apple_silicon"
            /\ ~(gpu = "nvidia" /\ gpu_memory > SufficientGpuMemory)
            /\ gpu_memory > 0 ->
              [server |-> [OLLAMA_LOW_VRAM |-> "true"],
               runtime |-> [num_gpu |-> 0, low_vram |-> TRUE]]
         [] OTHER ->
              [server |-> [OLLAMA_LOW_VRAM |-> "true"],
               runtime |-> [num_gpu |-> 0, low_vram |-> TRUE]]

\* The memory tier with the values of its first and its last band exchanged.
_optimize_for_memory_Exchanged(system) ==
    IF system.memory_gb <= 8
      THEN [server |-> [OLLAMA_KEEP_ALIVE |-> "30m", OLLAMA_MAX_LOADED_MODELS |-> "2"],
            runtime |-> [num_ctx |-> 4096, num_predict |-> 2048]]
      ELSE [server |-> [OLLAMA_KEEP_ALIVE |-> "5m", OLLAMA_MAX_LOADED_MODELS |-> "1"],
            runtime |-> [num_ctx |-> 1024, num_predict |-> 512]]

\* OllamaOptimizer._optimize_for_memory
_optimize_for_memory(system) ==
    CASE system.memory_gb <= 8 ->
           [server |-> [OLLAMA_KEEP_ALIVE |-> "5m", OLLAMA_MAX_LOADED_MODELS |-> "1"],
            runtime |-> [num_ctx |-> 1024, num_predict |-> 512]]
      [] system.memory_gb > 8 /\ system.memory_gb <= 16 ->
           [server |-> [OLLAMA_KEEP_ALIVE |-> "5m", OLLAMA_MAX_LOADED_MODELS |-> "1"],
            runtime |-> [num_ctx |-> 1024, num_predict |-> 512]]
      [] OTHER ->
           [server |-> [OLLAMA_KEEP_ALIVE |-> "30m", OLLAMA_MAX_LOADED_MODELS |-> "2"],
            runtime |-> [num_ctx |-> 4096, num_predict |-> 2048]]

\* OllamaOptimizer._get_model_specific_settings; temperature in tenths.  The
\* other sampling keys (top_p, repeat_penalty, the penalties, tfs_z, the
\* mirostat rates, seed) are handled like temperature and top_k everywhere.
_get_model_specific_settings ==
    [temperature |-> 1, top_k |-> 20, mirostat |-> 0,
     num_predict |-> DefaultNumPredict, num_ctx |-> 512, num_batch |-> 1,
     num_keep |-> 0]

\* The three tiers in the order get_optimal_settings applies them.
TierOrder == <<"cpu", "gpu", "memory">>

Tier(name, system) ==
    CASE name = "cpu" -> _optimize_for_cpu(system)
      [] name = "gpu" -> _optimize_for_gpu(system)
      [] OTHER -> _optimize_for_memory(system)

RECURSIVE MergeTiers(_, _, _)
\* settings['server'].update(...), settings['runtime'].update(...) per tier.
MergeTiers(settings, order, system) ==
    IF order = <<>> THEN settings
    ELSE LET t == Tier(Head(order), system)
         IN MergeTiers([settings EXCEPT !.server = Update(@, t.server),
                                        !.runtime = Update(@, t.runtime)],
                       Tail(order), system)

\* OllamaOptimizer.get_optimal_settings
get_optimal_settings(system) ==
    LET tiers == MergeTiers([server |-> EmptyDict, runtime |-> EmptyDict,
                             model |-> EmptyDict], TierOrder, system)
    IN [tiers EXCEPT !.model = Update(@, _get_model_specific_settings)]

\* critical_params of OllamaOptimizer.sync_with_user_settings
critical_params ==
    {"num_thread", "num_gpu", "num_ctx", "low_vram",
     "rope_frequency_base", "rope_frequency_scale"}

\* sync_with_user_settings comparing every critical key, supplied or not.
optimizer_sync_EveryCriticalKey(system, u) ==
    LET current_settings == get_optimal_settings(system)
        runtime_settings == current_settings.runtime
    IN [settings |->
            [current_settings EXCEPT
                !.runtime = [k \in DOMAIN @ |-> IF k \in DOMAIN u THEN u[k] ELSE @[k]],
                !.model = [k \in DOMAIN @ |->
                              IF k \in DOMAIN u /\ k \notin DOMAIN runtime_settings
                                THEN u[k] ELSE @[k]]],
        needs_restart |->
            \E param \in critical_params :
                \/ param \notin DOMAIN u
                \/ param \notin DOMAIN runtime_settings
                \/ u[param] # runtime_settings[param],
        critical_params_changed |-> critical_params \cap DOMAIN u]

\* sync_with_user_settings overriding runtime keys only.
optimizer_sync_RuntimeOnly(system, u) ==
    LET current_settings == get_optimal_settings(system)
        runtime_settings == current_settings.runtime
    IN [settings |->
            [current_settings EXCEPT
                !.runtime = [k \in DOMAIN @ |-> IF k \in DOMAIN u THEN u[k] ELSE @[k]]],
        needs_restart |->
            \E param \in critical_params \cap DOMAIN u :
                \/ param \notin DOMAIN runtime_settings
                \/ u[param] # runtime_settings[param],
        critical_params_changed |-> critical_params \cap DOMAIN u]

\* sync_with_user_settings starting from the settings in effect instead of
\* the optimal settings computed afresh.
optimizer_sync_FromCurrent(system, u) ==
    LET current_settings == optimal_settings
        runtime_settings == current_settings.runtime
    IN [settings |->
            [current_settings EXCEPT
                !.runtime = [k \in DOMAIN @ |-> IF k \in DOMAIN u THEN u[k] ELSE @[k]],
                !.model = [k \in DOMAIN @ |->
                              IF k \in DOMAIN u /\ k \notin DOMAIN runtime_settings
                                THEN u[k] ELSE @[k]]],
        needs_restart |->
            \E param \in critical_params \cap DOMAIN u :
                \/ param \notin DOMAIN runtime_settings
                \/ u[param] # runtime_settings[param],
        critical_params_changed |-> critical_params \cap DOMAIN u]

\* OllamaOptimizer.sync_with_user_settings: the optimal settings are computed
\* afresh, compared with the user's critical keys, and overridden by the user's
\* values: the runtime copy of a key if there is one, else the model copy.
optimizer_sync_with_user_settings(system, u) ==
    LET current_settings == get_optimal_settings(system)
        runtime_settings == current_settings.runtime
        needs_restart ==
            \E param \in critical_params \cap DOMAIN u :
                \/ param \notin DOMAIN runtime_settings
                \/ u[param] # runtime_settings[param]
    IN [settings |->
            [current_settings EXCEPT
                !.runtime = [k \in DOMAIN @ |-> IF k \in DOMAIN u THEN u[k] ELSE @[k]],
                !.model = [k \in DOMAIN @ |->
                              IF k \in DOMAIN u /\ k \notin DOMAIN runtime_settings
                                THEN u[k] ELSE @[k]]],
        needs_restart |-> needs_restart,
        critical_params_changed |-> critical_params \cap DOMAIN u]

\* generate_stream, lines 147-194: the options of the request body, from the
\* defaults and the keywords of the call.  temperature in tenths.
BuildOptions(runtime_defaults, model_defaults, kw) ==
    LET runtime_settings ==
            [k \in DOMAIN runtime_defaults |->
                IF k \in DOMAIN kw THEN kw[k] ELSE runtime_defaults[k]]
        model_settings ==
            [k \in DOMAIN model_defaults |->
                IF k \in DOMAIN kw THEN kw[k] ELSE model_defaults[k]]
        filtered_kwargs ==
            DOMAIN kw \ (DOMAIN runtime_settings \cup DOMAIN model_settings)
    IN [temperature |-> Get(model_settings, "temperature", 7),
        num_predict |-> IF "max_tokens" \in filtered_kwargs THEN kw.max_tokens
                        ELSE Get(model_settings, "num_predict", 2048),
        top_k |-> Get(model_settings, "top_k", 40),
        mirostat |-> Get(model_settings, "mirostat", 0),
        num_thread |-> Get(runtime_settings, "num_thread", 4),
        num_gpu |-> Get(runtime_settings, "num_gpu", 1),
        gpu_layers |-> Get(runtime_settings, "gpu_layers", 0),
        num_ctx |-> Get(runtime_settings, "num_ctx", 2048),
        low_vram |-> Get(runtime_settings, "low_vram", FALSE),
        rope_frequency_base |-> Get(runtime_settings, "rope_frequency_base", 10000)]

\* The keys of the defaults that BuildData reads.
RuntimeView(settings) == [num_ctx |-> settings.runtime.num_ctx]

ModelView(settings) == [num_predict |-> settings.model.num_predict]

\* The machine the client is constructed on: eight cores, no GPU, and the
\* memory that gives the context length num_ctx.
InitProfile(num_ctx) ==
    [platform |-> "Linux", processor |-> "x86_64", cpu_count |-> 8,
     memory_gb |-> IF num_ctx = 1024 THEN 8 ELSE 32,
     gpu |-> "unknown", gpu_memory_gb |-> 0, gpu_type |-> "unknown"]

\* The dictionaries a caller synchronises; temperature in tenths, 50 is 5.0.
UserSettings ==
    {EmptyDict,
     [temperature |-> 5, top_k |-> 50],
     [temperature |-> 5, num_thread |-> 4, num_ctx |-> 1024, top_k |-> 50],
     [num_ctx |-> 1024],
     [num_ctx |-> 2048],
     [num_predict |-> 1024],
     [rope_frequency_base |-> 10000],
     [theme |-> "dark"],
     [temperature |-> 50, mirostat |-> 7]}

\* The keywords of a generate_stream call: none but the system prompt, or
\* values beyond what the settings dialog accepts.
CallKwargs ==
    {[system |-> ""],
     [system |-> "", temperature |-> 50],
     [system |-> "", mirostat |-> 7, num_ctx |-> 32768],
     [system |-> "be brief", max_tokens |-> 2048]}

NoSync == [settings |-> EmptyDict, needs_restart |-> FALSE,
           critical_params_changed |-> {}, called |-> FALSE]

NoSent == [built |-> FALSE, model |-> "", kwargs |-> EmptyDict,
           options |-> EmptyDict, timeout |-> 0]

\* ------------------------------------------------- the objects of a call

\* The caller's messages: one message of the user.
Messages == <<[role |-> "user", content |-> "hi"]>>

\* A name that refers to no object yet.
NoObject == [free |-> TRUE]

\* The keywords of the calls whose objects are followed.
FrameKwargs == Kwargs \cup CallKwargs

\* An assignment in place of a copy: the name refers to the source itself.
dict_copy_Alias(h, src, fresh) == [heap |-> h, ref |-> src]

\* dict.copy(): a new dictionary with the keys and values of the source; the
\* values are the same objects.
dict_copy(h, src, fresh) == [heap |-> [h EXCEPT ![fresh] = h[src]], ref |-> fresh]

\* d.update({key: value for key, value in kwargs.items() if key in d})
Overridden(d, kw) == [k \in DOMAIN d |-> IF k \in DOMAIN kw THEN kw[k] ELSE d[k]]

\* json=data of requests.post: the body as it is when it is sent.
Body(h, data_ref, pass) ==
    [pass |-> pass,
     num_ctx |-> h[h[data_ref].options].num_ctx,
     num_predict |-> h[h[data_ref].options].num_predict,
     messages |-> h[h[data_ref].messages]]

\* ----------------------------------------------------------------- actions

Init ==
    /\ default_runtime_settings \in [num_ctx : DefaultCtxChoices]
    /\ default_model_settings = [num_predict |-> DefaultNumPredict]
    /\ system_info = InitProfile(default_runtime_settings.num_ctx)
    /\ optimal_settings = get_optimal_settings(system_info)
    /\ previous_settings = optimal_settings
    /\ user_settings = EmptyDict
    /\ sync_result = NoSync
    /\ restart = "none"
    /\ sent = NoSent
    /\ environment = [sys_platform |-> "undetected", machine |-> "unused",
                      cpu_count |-> 0, base_ok |-> TRUE, profiler |-> "unused",
                      video |-> [state |-> "unused", name |-> "", ram |-> 0],
                      nvidia_smi |-> "unused", lspci |-> "unused"]
    /\ now = 0
    /\ timing = "idle"
    /\ start_time = 0
    /\ first_token_time = <<>>
    /\ output_tokens = 0
    /\ lines_read = 0
    /\ last_generation_stats = EmptyDict
    /\ call_model = None
    /\ yielded_tokens = 0
    /\ generations = 0
    /\ heap = [default_runtime_settings |-> default_runtime_settings,
               default_model_settings |-> default_model_settings,
               messages |-> Messages,
               runtime_settings |-> NoObject, model_settings |-> NoObject,
               options |-> NoObject, data |-> NoObject,
               recovery_data |-> NoObject]
    /\ locals = [runtime_settings |-> None, model_settings |-> None,
                 recovery_data |-> None]
    /\ frame_pc = "idle"
    /\ frame_args = [model |-> None, kwargs |-> EmptyDict]
    /\ frame_requests = <<>>
    /\ recovered = [happened |-> FALSE, args |-> frame_args, sent |-> <<>>]
    /\ pc = "idle"
    /\ model = None
    /\ data = NoData
    /\ requests = <<>>
    /\ received = <<>>
    /\ yielded = <<>>
    /\ opened = None
    /\ cause = None
    /\ recovery_error = None
    /\ full_response = <<>>
    /\ events = <<>>
    /\ quit_at = NotQuit
    /\ current_model = None
    /\ input_text = ""
    /\ read_only = FALSE
    /\ send_enabled = FALSE
    /\ frames = <<>>
    /\ message_thread = NoThread
    /\ threads = [t \in ThreadIds |-> "unborn"]
    /\ signals = <<>>
    /\ crashed = FALSE

Terminal == pc \in {"returned", "raised"}

\* The generator raised err: MessageThread.run emits error and ends.
RaiseOut(err) ==
    /\ pc' = "raised"
    /\ events' = AfterRaise(events, err)
    /\ UNCHANGED <<yielded, full_response>>

\* The generator is exhausted: MessageThread.run emits the rest and ends.
ReturnOut ==
    /\ pc' = "returned"
    /\ events' = AfterReturn(events, full_response)
    /\ UNCHANGED <<yielded, full_response>>

\* The generator yielded chunk: one turn of the for loop of MessageThread.run.
YieldOut(chunk, next) ==
    /\ pc' = next
    /\ yielded' = Append(yielded, chunk)
    /\ full_response' = AfterChunkResponse(full_response, chunk)
    /\ events' = AfterChunkEvents(events, chunk)

\* MessageThread.run calls generate_stream(model, messages, **kwargs), which
\* runs to its requests.post: lines 128-241.  kwargs['system'] raises KeyError
\* when the caller passed no system keyword.
Start(m, kw, outcome) ==
    /\ pc = "idle"
    /\ model' = m
    /\ UNCHANGED <<restVars, received, recovery_error>>
    /\ IF "system" \notin DOMAIN kw
        THEN /\ RaiseOut(GenerationError("KeyError"))
             /\ UNCHANGED <<data, requests, opened, cause>>
        ELSE /\ data' = BuildData(kw)
             /\ requests' = Append(requests,
                    Request("primary", data', total_timeout(m, data'.num_ctx)))
             /\ opened' = outcome
             /\ CASE outcome = "ok" ->
                       /\ pc' = "primary"
                       /\ UNCHANGED <<cause, yielded, full_response, events>>
                  [] outcome # "ok" /\ IsTimeout(outcome) ->
                       /\ pc' = "timeout"
                       /\ cause' = outcome
                       /\ UNCHANGED <<yielded, full_response, events>>
                  [] OTHER ->
                       /\ RaiseOut(ApiError(outcome))
                       /\ UNCHANGED cause

\* iter_lines() of the primary response hands over one line: lines 244-289.
PrimaryLine(line) ==
    /\ pc = "primary"
    /\ Len(received) < MaxLines
    /\ received' = Append(received, Carried("primary", line))
    /\ UNCHANGED <<restVars, model, data, requests, opened, cause, recovery_error>>
    /\ LET r == ParsePrimary(line) IN
         CASE r.act = "yield" -> YieldOut(r.text, "primary")
           [] r.act = "raise" -> RaiseOut(GenerationError(r.exc))
           [] OTHER -> UNCHANGED <<pc, yielded, full_response, events>>

\* The primary response ends: lines 291-320, then the generator returns.
PrimaryEnd ==
    /\ pc = "primary"
    /\ ReturnOut
    /\ UNCHANGED <<restVars, model, data, requests, opened, received, cause,
                   recovery_error>>

\* Reading the primary response raises: lines 322-324 and 360-362.
PrimaryFail(exc) ==
    /\ pc = "primary"
    /\ UNCHANGED <<restVars, model, data, requests, opened, received,
                   recovery_error>>
    /\ IF IsTimeout(exc)
        THEN /\ pc' = "timeout"
             /\ cause' = exc
             /\ UNCHANGED <<yielded, full_response, events>>
        ELSE /\ RaiseOut(ApiError(exc))
             /\ UNCHANGED cause

\* The handler of requests.exceptions.Timeout: lines 326-341 and 356-358.
Recover(outcome) ==
    /\ pc = "timeout"
    /\ data' = RecoveryData(data)
    /\ requests' = Append(requests, Request("recovery", data', RecoveryTimeout))
    /\ UNCHANGED <<restVars, model, opened, received, cause>>
    /\ IF outcome = "ok"
        THEN /\ pc' = "recovery"
             /\ UNCHANGED <<recovery_error, yielded, full_response, events>>
        ELSE /\ recovery_error' = outcome
             /\ RaiseOut(RecoveryError(cause, outcome))

\* iter_lines() of the recovery response hands over one line: lines 342-351.
RecoveryLine(line) ==
    /\ pc = "recovery"
    /\ Len(received) < MaxLines
    /\ received' = Append(received, Carried("recovery", line))
    /\ UNCHANGED <<restVars, model, data, requests, opened, cause>>
    /\ LET r == ParseRecovery(line) IN
         CASE r.act = "yield" ->
                /\ YieldOut(r.text, "recovery")
                /\ UNCHANGED recovery_error
           [] r.act = "raise" ->
                /\ recovery_error' = r.exc
                /\ RaiseOut(RecoveryError(cause, r.exc))
           [] OTHER -> UNCHANGED <<pc, recovery_error, yielded, full_response, events>>

\* The recovery response ends: lines 353-354.
RecoveryEnd ==
    /\ pc = "recovery"
    /\ ReturnOut
    /\ UNCHANGED <<restVars, model, data, requests, opened, received, cause,
                   recovery_error>>

\* Reading the recovery response raises: lines 356-358.
RecoveryFail(exc) ==
    /\ pc = "recovery"
    /\ recovery_error' = exc
    /\ RaiseOut(RecoveryError(cause, exc))
    /\ UNCHANGED <<restVars, model, data, requests, opened, received, cause>>

\* The thread has ended; the next MessageThread is made for the next call.
NextCall ==
    /\ Terminal
    /\ ~quit_at.requested
    /\ pc' = "idle"
    /\ model' = None
    /\ data' = NoData
    /\ requests' = <<>>
    /\ received' = <<>>
    /\ yielded' = <<>>
    /\ opened' = None
    /\ cause' = None
    /\ recovery_error' = None
    /\ full_response' = <<>>
    /\ events' = <<>>
    /\ UNCHANGED restVars

Next ==
    \/ \E m \in ModelNames, kw \in Kwargs, o \in OpenOutcomes : Start(m, kw, o)
    \/ \E line \in Lines : PrimaryLine(line)
    \/ PrimaryEnd
    \/ \E exc \in ReadErrors : PrimaryFail(exc)
    \/ \E o \in OpenOutcomes : Recover(o)
    \/ \E line \in Lines : RecoveryLine(line)
    \/ RecoveryEnd
    \/ \E exc \in ReadErrors : RecoveryFail(exc)
    \/ NextCall

Spec == Init /\ [][Next]_vars

\* ----------------------------------------------------- closeEvent and quit

\* ChatWindow.closeEvent while the thread runs: message_thread.quit() and
\* wait().  quit() ends the event loop of a thread, and run() enters none: the
\* for loop over generate_stream goes on, and wait() returns when it has ended.
closeEvent ==
    /\ pc \in {"primary", "timeout", "recovery"}
    /\ ~quit_at.requested
    /\ quit_at' = [requested |-> TRUE, lines |-> Len(received),
                   chunks |-> Len(ChunkTexts(events))]
    /\ UNCHANGED <<apiVars, callVars, winVars, optVars, statVars, frameVars>>

NextQuit ==
    \/ Next
    \/ closeEvent

SpecQuit == Init /\ [][NextQuit]_vars

\* --------------------------------------------------------------- ChatWindow

\* ChatWindow.on_model_changed: no model disables sending; a model is checked
\* by check_model_availability, which enables or disables the send button.
on_model_changed(model_text, available) ==
    /\ ~crashed
    /\ current_model' = IF model_text = "" THEN None ELSE model_text
    /\ send_enabled' = (model_text # "" /\ available)
    /\ UNCHANGED <<apiVars, callVars, quit_at, optVars, statVars, frameVars, input_text, read_only, frames,
                   message_thread, threads, signals, crashed>>

\* The user edits message_input; a read-only QTextEdit takes no text.
UserTypes(text) ==
    /\ ~crashed
    /\ ~read_only
    /\ input_text' = text
    /\ UNCHANGED <<apiVars, callVars, quit_at, optVars, statVars, frameVars, current_model, read_only,
                   send_enabled, frames, message_thread, threads, signals, crashed>>

\* send_message, lines 1028-1046: the two guards, the locking of the input, and
\* chat_history.add_message, whose _scroll_to_bottom calls processEvents(): the
\* call stands there, before message_input.clear(), while events are handled.
send_message ==
    /\ ~crashed
    /\ IF current_model = None \/ input_text = ""
        THEN UNCHANGED <<read_only, send_enabled, frames>>
        ELSE /\ Len(frames) < MaxFrames
             /\ Made + Len(frames) < MaxThreads
             /\ read_only' = TRUE
             /\ send_enabled' = FALSE
             /\ frames' = Append(frames, input_text)
    /\ UNCHANGED <<apiVars, callVars, quit_at, optVars, statVars, frameVars, current_model, input_text,
                   message_thread, threads, signals, crashed>>

\* send_button.clicked: a disabled button emits nothing.
clicked ==
    /\ send_enabled
    /\ send_message

\* ChatWindow.eventFilter: Return or Enter in message_input, without Shift.
eventFilter == send_message

\* send_message, lines 1047-1072, when processEvents() has returned: the input
\* is cleared, a MessageThread is made, assigned to self.message_thread and
\* started.  The assignment drops the last reference to the thread assigned
\* before; a QThread destroyed while it runs aborts the process, unless its
\* run() already executes and keeps the object alive.
send_message_resume ==
    /\ ~crashed
    /\ frames # <<>>
    /\ frames' = SubSeq(frames, 1, Len(frames) - 1)
    /\ input_text' = ""
    /\ message_thread' = Made + 1
    /\ IF message_thread # NoThread /\ Active(message_thread)
        THEN \/ /\ crashed' = TRUE
                /\ UNCHANGED threads
             \/ /\ threads' = [threads EXCEPT ![Made + 1] = "running"]
                /\ UNCHANGED crashed
        ELSE /\ threads' = [threads EXCEPT ![Made + 1] = "running"]
             /\ UNCHANGED crashed
    /\ UNCHANGED <<apiVars, callVars, quit_at, optVars, statVars, frameVars, current_model, read_only,
                   send_enabled, signals>>

\* MessageThread.run of src/chat_window.py: generate_stream is called with
\* model, prompt and system and without messages, the call raises TypeError,
\* and run emits error and returns.  A thread the window no longer refers to
\* loses its last reference here.
run(t) ==
    /\ ~crashed
    /\ Active(t)
    /\ threads' = [threads EXCEPT ![t] = "done"]
    /\ signals' = Append(signals, t)
    /\ IF t # message_thread
        THEN \/ crashed' = TRUE
             \/ UNCHANGED crashed
        ELSE UNCHANGED crashed
    /\ UNCHANGED <<apiVars, callVars, quit_at, optVars, statVars, frameVars, current_model, input_text,
                   read_only, send_enabled, frames, message_thread>>

\* ChatWindow.on_message_error, delivered from the queue: the input is
\* unlocked and check_model_availability sets the send button.
on_message_error(available) ==
    /\ ~crashed
    /\ signals # <<>>
    /\ signals' = Tail(signals)
    /\ read_only' = FALSE
    /\ send_enabled' = (current_model # None /\ available)
    /\ UNCHANGED <<apiVars, callVars, quit_at, optVars, statVars, frameVars, current_model, input_text,
                   frames, message_thread, threads, crashed>>

NextWindow ==
    \/ \E m \in ModelTexts, available \in BOOLEAN : on_model_changed(m, available)
    \/ \E text \in InputTexts : UserTypes(text)
    \/ clicked
    \/ eventFilter
    \/ send_message_resume
    \/ \E t \in ThreadIds : run(t)
    \/ \E available \in BOOLEAN : on_message_error(available)

SpecWindow == Init /\ [][NextWindow]_vars

\* ------------------------------------------------- optimisation and settings

\* OllamaAPI.reload_optimization, after the hardware was changed: the system
\* is detected again and the defaults are computed from it.  What is remembered
\* of synchronisations and requests starts afresh.
reload_optimization(system) ==
    /\ system_info' = system
    /\ optimal_settings' = get_optimal_settings(system)
    /\ default_runtime_settings' = RuntimeView(optimal_settings')
    /\ default_model_settings' = ModelView(optimal_settings')
    /\ previous_settings' = optimal_settings'
    /\ user_settings' = EmptyDict
    /\ sync_result' = NoSync
    /\ restart' = "none"
    /\ sent' = NoSent
    /\ UNCHANGED <<callVars, quit_at, winVars, statVars, frameVars, environment>>

\* OllamaAPI.sync_with_user_settings: the server is restarted when the
\* optimizer asks for it, and the optimizer's result becomes the client's
\* settings whether or not the restart succeeds.
sync_with_user_settings(u) ==
    /\ sync_result' = optimizer_sync_with_user_settings(system_info, u)
                          @@ [called |-> TRUE]
    /\ restart' = IF sync_result'.needs_restart THEN "attempted" ELSE "none"
    /\ user_settings' = u
    /\ previous_settings' = optimal_settings
    /\ optimal_settings' = sync_result'.settings
    /\ default_runtime_settings' = RuntimeView(optimal_settings')
    /\ default_model_settings' = ModelView(optimal_settings')
    /\ sent' = NoSent
    /\ UNCHANGED <<callVars, quit_at, winVars, statVars, frameVars, system_info, environment>>

\* generate_stream, lines 147-231, on the client's current defaults: the
\* request body of a call for model m with the keywords kw, and its deadline.
build_request(m, kw) ==
    /\ sent' = [built |-> TRUE, model |-> m, kwargs |-> kw,
                options |-> BuildOptions(optimal_settings.runtime,
                                         optimal_settings.model, kw),
                timeout |-> total_timeout(m,
                                BuildOptions(optimal_settings.runtime,
                                             optimal_settings.model, kw).num_ctx)]
    /\ UNCHANGED <<apiVars, callVars, quit_at, winVars, statVars, frameVars, system_info,
                   optimal_settings, previous_settings, user_settings,
                   sync_result, restart, environment>>

NextOpt ==
    \/ \E system \in Profiles : reload_optimization(system)
    \/ \E u \in UserSettings : sync_with_user_settings(u)
    \/ \E m \in ModelNames, kw \in CallKwargs : build_request(m, kw)

SpecOpt == Init /\ [][NextOpt]_vars

\* ------------------------------------------------------------- detection

\* OllamaAPI.__init__ on a machine that answers env: SystemDetector() detects
\* the system, get_optimal_settings() computes the defaults from it, and the
\* runtime and model defaults of the client are taken from them.
detect(env) ==
    /\ environment' = env
    /\ system_info' = _detect_system(env)
    /\ optimal_settings' = get_optimal_settings(system_info')
    /\ default_runtime_settings' = RuntimeView(optimal_settings')
    /\ default_model_settings' = ModelView(optimal_settings')
    /\ previous_settings' = optimal_settings'
    /\ user_settings' = EmptyDict
    /\ sync_result' = NoSync
    /\ restart' = "none"
    /\ sent' = NoSent
    /\ UNCHANGED <<callVars, quit_at, winVars, statVars, frameVars>>

NextDetect == \E env \in Environments : detect(env)

SpecDetect == Init /\ [][NextDetect]_vars

\* ------------------------------------------------- the objects of a call

\* generate_stream(m, messages, **kw), lines 147-240: the defaults are copied,
\* the copies take the keywords, the options and the body are built as new
\* dictionaries, and the primary request is sent; kwargs['system'] raises
\* KeyError before that when the keyword was not passed.
frame_start(m, kw) ==
    /\ frame_pc \in {"idle", "done"}
    /\ LET runtime == dict_copy(heap, "default_runtime_settings", "runtime_settings")
           mdl == dict_copy(runtime.heap, "default_model_settings", "model_settings")
           h1 == [mdl.heap EXCEPT ![runtime.ref] = Overridden(@, kw)]
           h2 == [h1 EXCEPT ![mdl.ref] = Overridden(@, kw)]
           h3 == [h2 EXCEPT !["options"] = BuildOptions(h2[runtime.ref], h2[mdl.ref], kw),
                            !["data"] = [model |-> m, messages |-> "messages",
                                         options |-> "options"],
                            !["recovery_data"] = NoObject]
       IN /\ heap' = h3
          /\ locals' = [runtime_settings |-> runtime.ref, model_settings |-> mdl.ref,
                        recovery_data |-> None]
          /\ IF "system" \in DOMAIN kw
               THEN /\ frame_pc' = "primary"
                    /\ frame_requests' = <<Body(h3, "data", "primary")>>
               ELSE /\ frame_pc' = "done"
                    /\ frame_requests' = <<>>
    /\ frame_args' = [model |-> m, kwargs |-> kw]
    /\ UNCHANGED <<apiVars, callVars, quit_at, winVars, optVars, statVars, recovered>>

\* The handler of requests.exceptions.Timeout, lines 326-341: data.copy(), the
\* two caps written into recovery_data['options'], and the recovery request.
frame_recover ==
    /\ frame_pc = "primary"
    /\ LET copy == dict_copy(heap, "data", "recovery_data")
           h1 == [copy.heap EXCEPT ![copy.heap[copy.ref].options] = RecoveryData(@)]
       IN /\ heap' = h1
          /\ locals' = [locals EXCEPT !.recovery_data = copy.ref]
          /\ frame_requests' = Append(frame_requests, Body(h1, copy.ref, "recovery"))
    /\ frame_pc' = "recovery"
    /\ UNCHANGED <<apiVars, callVars, quit_at, winVars, optVars, statVars, frame_args,
                   recovered>>

\* The call ends: its response ends (ok) or it raises.
frame_end(ok) ==
    /\ frame_pc \in {"primary", "recovery"}
    /\ frame_pc' = "done"
    /\ recovered' = IF ok /\ frame_pc = "recovery"
                      THEN [happened |-> TRUE, args |-> frame_args,
                            sent |-> frame_requests]
                      ELSE recovered
    /\ UNCHANGED <<apiVars, callVars, quit_at, winVars, optVars, statVars, heap, locals,
                   frame_args, frame_requests>>

NextFrame ==
    \/ \E m \in ModelNames, kw \in FrameKwargs : frame_start(m, kw)
    \/ frame_recover
    \/ \E ok \in BOOLEAN : frame_end(ok)

SpecFrame == Init /\ [][NextFrame]_vars

\* ------------------------------------------------------------ the metrics

\* The time of the first fragment itself, not the time elapsed until it.
ElapsedAtFirstToken_Absolute(t, start) == t

\* time.time() - start_time at the first fragment, lines 272-273 and 284-285.
ElapsedAtFirstToken(t, start) == t - start

\* The statistics of the generation added to the statistics stored before.
FinalStats_Accumulated(m, start, end, first, tokens) ==
    [model |-> m,
     total_time |-> Get(last_generation_stats, "total_time", 0) + (end - start),
     time_to_first_token |-> IF first = <<>> THEN 0 ELSE first[1],
     output_tokens |-> Get(last_generation_stats, "output_tokens", 0) + tokens]

\* Lines 294-320: the statistics stored when the primary response has ended.
FinalStats(m, start, end, first, tokens) ==
    [model |-> m,
     total_time |-> end - start,
     time_to_first_token |-> IF first = <<>> THEN 0 ELSE first[1],
     output_tokens |-> tokens]

\* What a generate_stream call followed for its metrics leaves alone.
untimedVars == <<apiVars, callVars, quit_at, winVars, optVars, frameVars>>

\* How a call has ended: its primary response ended, its recovery response
\* ended, or it raised.
Ended == {"completed", "recovered", "failed"}

\* The wall clock moves on.
Tick ==
    /\ now < MaxClock
    /\ now' = now + 1
    /\ UNCHANGED <<untimedVars, timing, start_time, first_token_time,
                   output_tokens, lines_read, last_generation_stats,
                   call_model, yielded_tokens, generations>>

\* generate_stream is entered for model m and its request answered:
\* lines 129, 205-209.
timed_start(m) ==
    /\ timing \in {"idle"} \cup Ended
    /\ generations < MaxGenerations
    /\ timing' = "primary"
    /\ call_model' = m
    /\ start_time' = now
    /\ first_token_time' = <<>>
    /\ output_tokens' = 0
    /\ lines_read' = 0
    /\ yielded_tokens' = 0
    /\ UNCHANGED <<untimedVars, now, last_generation_stats, generations>>

\* A valid line of the primary response: lines 255-283.
timed_fragment(text) ==
    /\ timing = "primary"
    /\ lines_read < MaxLines
    /\ lines_read' = lines_read + 1
    /\ output_tokens' = output_tokens + WordCount(text)
    /\ yielded_tokens' = yielded_tokens + WordCount(text)
    /\ first_token_time' = IF first_token_time = <<>>
                             THEN <<ElapsedAtFirstToken(now, start_time)>>
                             ELSE first_token_time
    /\ UNCHANGED <<untimedVars, now, timing, start_time, last_generation_stats,
                   call_model, generations>>

\* The primary response ends: lines 291-320.
timed_complete ==
    /\ timing = "primary"
    /\ timing' = "completed"
    /\ generations' = generations + 1
    /\ last_generation_stats' =
          FinalStats(call_model, start_time, now, first_token_time, output_tokens)
    /\ UNCHANGED <<untimedVars, now, start_time, first_token_time,
                   output_tokens, lines_read, call_model, yielded_tokens>>

\* The primary request times out and the recovery request is answered:
\* lines 322-341.
timed_timeout ==
    /\ timing = "primary"
    /\ timing' = "recovery"
    /\ UNCHANGED <<untimedVars, now, start_time, first_token_time,
                   output_tokens, lines_read, last_generation_stats,
                   call_model, yielded_tokens, generations>>

\* A valid line of the recovery response: lines 343-351, yielded with no
\* metric kept.
timed_recovery_fragment(text) ==
    /\ timing = "recovery"
    /\ lines_read < MaxLines
    /\ lines_read' = lines_read + 1
    /\ yielded_tokens' = yielded_tokens + WordCount(text)
    /\ UNCHANGED <<untimedVars, now, timing, start_time, first_token_time,
                   output_tokens, last_generation_stats, call_model, generations>>

\* The recovery response ends and the generator returns, lines 353-354: the
\* statistics stay as the last completed primary pass left them.
timed_recovery_complete ==
    /\ timing = "recovery"
    /\ timing' = "recovered"
    /\ generations' = generations + 1
    /\ UNCHANGED <<untimedVars, now, start_time, first_token_time,
                   output_tokens, lines_read, last_generation_stats,
                   call_model, yielded_tokens>>

\* The call raises, lines 356-366: the statistics stay as they were.
timed_leave ==
    /\ timing \in {"primary", "recovery"}
    /\ timing' = "failed"
    /\ UNCHANGED <<untimedVars, now, start_time, first_token_time,
                   output_tokens, lines_read, last_generation_stats,
                   call_model, yielded_tokens, generations>>

NextStats ==
    \/ Tick
    \/ \E m \in ModelNames : timed_start(m)
    \/ \E text \in Frags : timed_fragment(text)
    \/ timed_complete
    \/ timed_timeout
    \/ \E text \in Frags : timed_recovery_fragment(text)
    \/ timed_recovery_complete
    \/ timed_leave

SpecStats == Init /\ [][NextStats]_vars

\* ------------------------------------------------- what the claims speak of

CarriesText(r) == r.valid /\ r.text # Empty

\* The non-empty fragments the valid lines read so far carried, in order.
CarriedTexts(rec) ==
    LET lines == SelectSeq(rec, CarriesText) IN [i \in 1..Len(lines) |-> lines[i].text]

LastEvent == events[Len(events)]

FinishedEvent == Event("finished", Empty, 0, NoErr)

\* ---------------------------------------------------------------------- C1

\* C1: a Timeout of the primary request is followed by exactly one recovery
\* request, whose num_ctx is min(original, 1024) and whose num_predict is
\* min(original, 512); a call issues at most two chat requests, the primary
\* and one recovery, and nothing is issued after a failed recovery.
C1_OneRecovery ==
    /\ Len(requests) <= 2
    /\ Len(requests) >= 1 => requests[1].pass = "primary"
    /\ Len(requests) = 2 =>
          /\ cause = "Timeout"
          /\ requests[2].pass = "recovery"
          /\ requests[2].num_ctx = Min(requests[1].num_ctx, 1024)
          /\ requests[2].num_predict = Min(requests[1].num_predict, 512)
    /\ (cause = "Timeout" /\ pc # "timeout") => Len(requests) = 2
    /\ recovery_error # None => (pc = "raised" /\ Len(requests) = 2)

\* The primary request asked for 4096 and 2048, timed out, and the recovery
\* request, issued with 1024 and 512, failed.
C1_Witness ==
    /\ pc = "raised"
    /\ recovery_error # None
    /\ Len(requests) = 2
    /\ requests[1].num_ctx = 4096 /\ requests[2].num_ctx = 1024
    /\ requests[1].num_predict = 2048 /\ requests[2].num_predict = 512

\* ---------------------------------------------------------------------- C2

\* C2: when the primary request timed out and the recovery attempt failed, the
\* call ends in an error that carries both causes, the Timeout and the
\* recovery failure, in that order; it does not end as a completion.
C2_BothCauses ==
    recovery_error # None =>
        /\ pc = "raised"
        /\ events # <<>>
        /\ LastEvent.sig = "error"
        /\ LastEvent.err.causes = <<"Timeout", recovery_error>>
        /\ \A i \in 1..Len(events) : events[i].sig # "finished"

\* The recovery request was refused after the primary timed out mid-stream.
C2_Witness ==
    /\ recovery_error = "ConnectionError"
    /\ cause = "Timeout"
    /\ yielded # <<>>
    /\ LastEvent.sig = "error"

\* ---------------------------------------------------------------------- C3

\* C3 as stated: a connection-level failure of the primary request (refused,
\* DNS, or a timeout before any response byte) fails the call with no second
\* request.
C3_Original ==
    opened \in {"ConnectionError", "Timeout"} => Len(requests) <= 1

\* C3 as amended: a refused connection or DNS failure of the primary request
\* fails the call at once with an API error and no second request; a timeout
\* before any response byte is handled like every timeout, by the one
\* reduced-parameter recovery request.
C3_Amended ==
    /\ opened = "ConnectionError" =>
          /\ pc = "raised"
          /\ Len(requests) = 1
          /\ events = <<Event("error", Empty, 0, ApiError("ConnectionError"))>>
    /\ (opened = "Timeout" /\ pc # "timeout") =>
          /\ Len(requests) = 2
          /\ requests[2].pass = "recovery"

\* The primary connection was refused and the call has failed.
C3_Witness == opened = "ConnectionError" /\ pc = "raised" /\ received = <<>>

\* ---------------------------------------------------------------------- C4

\* C4: the message_chunk signals carry the fragments in the order their lines
\* were read, and finished (like error) is the last signal of its call: no
\* message_chunk follows it.
C4_Order ==
    /\ ChunkTexts(events) = CarriedTexts(received)
    /\ \A i \in 1..Len(events) :
          events[i].sig \in {"finished", "error"} => i = Len(events)
    /\ pc = "returned" => (events # <<>> /\ LastEvent = FinishedEvent)

\* Three different fragments were emitted in their order, then finished.
C4_Witness ==
    /\ pc = "returned"
    /\ ChunkTexts(events) = <<Hel, Lo, SpX>>
    /\ LastEvent.sig = "finished"

\* ---------------------------------------------------------------------- C7

\* C7: a line that is no valid fragment line (not JSON, or no object of one of
\* the two shapes) neither ends the call nor yields anything: the call goes on
\* reading where it stood.
C7_MalformedLineSkipped ==
    [][(Len(received') = Len(received) + 1 /\ ~received'[Len(received')].valid)
          => (pc' = pc /\ yielded' = yielded /\ events' = events)]_vars

\* ---------------------------------------------------------------------- C9

\* The call was ended by what the stream held, its end or one of its lines,
\* and by no failure of the transport or of the caller's arguments.
EndedByStream ==
    \/ pc = "returned"
    \/ /\ pc = "raised"
       /\ LastEvent.err.causes[Len(LastEvent.err.causes)] = "TypeError"

\* C9: a stream that holds no valid fragment (no lines, or only malformed and
\* content-less ones) ends the call as a completion with nothing in it:
\* finished is the only signal, and no error is emitted.
C9_EmptyCompletion ==
    (EndedByStream /\ CarriedTexts(received) = <<>>) =>
        /\ events = <<FinishedEvent>>
        /\ full_response = <<>>

\* ----------------------------------------------------------------- C8, C10

\* The ChatHistory of src/chat_window.py after the chunks signalled so far.
WindowHistory == on_message_chunks(ChatHistoryInit, ChunkTexts(events))

\* The ChatHistory of src/widgets/chat_history.py after the same chunks.
WidgetHistory == widgets_on_message_chunks(WidgetHistoryInit, ChunkTexts(events))

IsNonEmpty(t) == t # Empty

\* C8: at completion the text accumulated for the message in progress, in the
\* thread and in either ChatHistory, is the concatenation of the fragments the
\* lines carried, in order, nothing inserted and nothing removed.
C8_AccumulatedText ==
    pc = "returned" =>
        /\ Concat(full_response) = Concat(CarriedTexts(received))
        /\ WidgetHistory.current_message_text = Concat(CarriedTexts(received))
        /\ WindowHistory.text = Concat(CarriedTexts(received))

\* C10: an empty fragment changes nothing in the accumulator, wherever it comes
\* in the stream: no signal is emitted for it, add_message_chunk("") returns
\* the ChatHistory as it was, the message in progress stays open, and the
\* fragments after it are appended to the same message.
C10_EmptyFragmentNoOp ==
    /\ ChunkTexts(events) = SelectSeq(yielded, IsNonEmpty)
    /\ add_message_chunk(WindowHistory, Empty) = WindowHistory
    /\ widgets_add_message_chunk(WidgetHistory, Empty) = WidgetHistory
    /\ widgets_on_message_chunks(WidgetHistoryInit, yielded) = WidgetHistory
    /\ on_message_chunks(ChatHistoryInit, yielded) = WindowHistory
    /\ WidgetHistory.current_message_text = Concat(yielded)
    /\ full_response # <<>> =>
          /\ WidgetHistory.response_start_pos # None
          /\ WindowHistory.response_start_pos # None

\* An empty fragment came between two non-empty ones.
C10_Witness ==
    /\ yielded = <<Hel, Empty, Lo>>
    /\ WidgetHistory.current_message_text = Hel \o Lo
    /\ pc = "returned"

\* ---------------------------------------------------------------------- C5

\* C5: once a generation is cancelled mid-stream after N fragments, no further
\* line is read, the caller has exactly those N fragments, and the call does
\* not end in an error.
C5_CancelStopsReading ==
    quit_at.requested =>
        /\ Len(received) = quit_at.lines
        /\ Len(ChunkTexts(events)) = quit_at.chunks
        /\ pc # "raised"

\* ---------------------------------------------------------------------- C6

\* C6: at most one generation of a window is active at any time.
C6_AtMostOneActive ==
    Cardinality({t \in ThreadIds : Active(t)}) <= 1

\* ------------------------------------------------------------ the tiers

\* Every order in which the three tiers can be applied.
TierOrders ==
    {order \in [1..3 -> {"cpu", "gpu", "memory"}] :
        \A i, j \in 1..3 : i # j => order[i] # order[j]}

NoSettings == [server |-> EmptyDict, runtime |-> EmptyDict, model |-> EmptyDict]

\* The keys a tier writes, server and runtime apart.
TierKeys(name, system) ==
    {<<"server", k>> : k \in DOMAIN Tier(name, system).server}
    \cup {<<"runtime", k>> : k \in DOMAIN Tier(name, system).runtime}

\* C19: on the detected machine the CPU, GPU and memory tiers write disjoint
\* keys, and merging them gives the same settings in every order.
C19_TiersDisjoint ==
    /\ \A a, b \in {"cpu", "gpu", "memory"} :
          a # b => TierKeys(a, system_info) \cap TierKeys(b, system_info) = {}
    /\ \A order \in TierOrders :
          MergeTiers(NoSettings, order, system_info)
            = MergeTiers(NoSettings, TierOrder, system_info)

\* Full offload to the GPU, as the GPU tier writes it.
Offload == [num_gpu |-> 1, gpu_layers |-> -1, low_vram |-> FALSE]

\* C20: on the detected machine the GPU tier gives full offload without
\* low-VRAM mode to Apple silicon and to a discrete GPU with sufficient memory,
\* CPU-only execution in low-VRAM mode to every other machine, and in both
\* low_vram is set exactly when num_gpu is 0.
C20_GpuTier ==
    LET runtime == _optimize_for_gpu(system_info).runtime
        capable == \/ system_info.gpu = "apple_silicon"
                   \/ /\ system_info.gpu_type = "discrete"
                      /\ system_info.gpu_memory_gb > SufficientGpuMemory
    IN /\ capable => runtime = Offload
       /\ ~capable => runtime = [num_gpu |-> 0, low_vram |-> TRUE]
       /\ runtime.low_vram <=> runtime.num_gpu = 0

\* ------------------------------------------------------ synchronisation

\* The optimizer's defaults for the detected machine.
Defaults == get_optimal_settings(system_info)

\* The settings the optimizer knows: the keys of its runtime and model defaults.
KnownKeys == DOMAIN Defaults.runtime \cup DOMAIN Defaults.model

\* get_current_settings, read as test_settings_sync reads it: the runtime
\* setting of the key if there is one, else the model setting.
CurrentSetting(key) ==
    IF key \in DOMAIN optimal_settings.runtime
      THEN optimal_settings.runtime[key]
      ELSE optimal_settings.model[key]

C14_EmptySyncIdentity ==
    (sync_result.called /\ DOMAIN user_settings = {}) =>
        /\ sync_result.settings = Defaults
        /\ optimal_settings = Defaults
        /\ ~sync_result.needs_restart
        /\ sync_result.critical_params_changed = {}
        /\ restart = "none"

\* An empty dictionary was synchronised on a machine with an NVIDIA adapter.
C14_Witness ==
    /\ sync_result.called
    /\ DOMAIN user_settings = {}
    /\ system_info.gpu = "nvidia"
    /\ sync_result.settings.runtime.num_gpu = 1

\* The critical key has another value in the settings new than in old, or is
\* in one of them only.
CriticalDiffers(old, new, key) ==
    \/ (key \in DOMAIN old.runtime) # (key \in DOMAIN new.runtime)
    \/ /\ key \in DOMAIN old.runtime
       /\ key \in DOMAIN new.runtime
       /\ old.runtime[key] # new.runtime[key]

\* C12: the result of a synchronisation asks for a restart exactly when a
\* critical key has another value in the new settings than in the settings
\* that were in effect before it.
C12_RestartIffCriticalDiffers ==
    sync_result.called =>
        (sync_result.needs_restart <=>
            \E key \in critical_params :
                CriticalDiffers(previous_settings, optimal_settings, key))

\* C15: a synchronisation of non-critical keys only asks for no restart and
\* restarts nothing, and the request built next by a call without overrides
\* of its own carries the user's value of every known key.
C15_NonCriticalTakesEffect ==
    (sync_result.called /\ DOMAIN user_settings \cap critical_params = {}) =>
        /\ ~sync_result.needs_restart
        /\ restart = "none"
        /\ (sent.built /\ DOMAIN sent.kwargs \subseteq {"system"}) =>
              \A key \in DOMAIN user_settings \cap KnownKeys :
                  /\ key \in DOMAIN sent.options
                  /\ sent.options[key] = user_settings[key]

\* The values the settings dialog accepts for an option; temperature in tenths.
InRange(key, value) ==
    CASE key = "temperature" -> value \in 0..20
      [] key = "mirostat" -> value \in 0..2
      [] key = "top_k" -> value \in 1..100
      [] key = "num_ctx" -> value \in 512..32768
      [] OTHER -> TRUE

\* C16: every option of a request that was built lies within the range of its
\* field, whatever the defaults, the synchronised settings and the keywords
\* of the call.
C16_OptionsInRange ==
    sent.built => \A key \in DOMAIN sent.options : InRange(key, sent.options[key])

\* ------------------------------------------------------------- requests

\* C17: every generate_stream call that was started, with a system prompt,
\* with an empty one or with none, has issued its request and has not failed
\* for want of the system keyword.
C17_SystemOptional ==
    pc # "idle" =>
        /\ Len(requests) >= 1
        /\ \A i \in 1..Len(events) :
              events[i].sig = "error" => events[i].err # GenerationError("KeyError")

\* C18: whatever the model and the context length of a request, the deadline
\* of the recovery request that follows its timeout is strictly longer than
\* the deadline the request itself was given.
C18_RecoveryDeadlineLonger ==
    sent.built => RecoveryTimeout > sent.timeout

\* ------------------------------------------------------------- metrics

\* C11: the statistics recorded by a completed generation have
\* total_time >= time_to_first_token >= 0 and output_tokens >= 0.
C11_MetricsOrdered ==
    DOMAIN last_generation_stats # {} =>
        /\ last_generation_stats.total_time >= last_generation_stats.time_to_first_token
        /\ last_generation_stats.time_to_first_token >= 0
        /\ last_generation_stats.output_tokens >= 0

\* A generation that started after the clock did, received its first fragment
\* later and ended later still has recorded its statistics.
C11_Witness ==
    /\ DOMAIN last_generation_stats # {}
    /\ timing = "completed"
    /\ start_time > 0
    /\ last_generation_stats.time_to_first_token > 0
    /\ last_generation_stats.total_time > last_generation_stats.time_to_first_token
    /\ last_generation_stats.output_tokens > 0

\* ------------------------------------------------------- the memory tier

\* The band of the memory tier a machine with memory_gb of memory falls in.
MemoryBand(memory_gb) ==
    IF memory_gb <= 8 THEN 1 ELSE IF memory_gb <= 16 THEN 2 ELSE 3

\* The minutes an OLLAMA_KEEP_ALIVE value stands for.
KeepAliveMinutes(value) == IF value = "5m" THEN 5 ELSE 30

\* C21: of two machines the one in the smaller memory band gets a shorter
\* keep-alive, a smaller context and a smaller output length from the memory
\* tier, and none of the three ever decreases as the memory grows.
C21_MemoryBands ==
    \A other \in Profiles :
        LET small == _optimize_for_memory(other)
            large == _optimize_for_memory(system_info)
        IN /\ other.memory_gb <= system_info.memory_gb =>
                /\ KeepAliveMinutes(small.server.OLLAMA_KEEP_ALIVE)
                     <= KeepAliveMinutes(large.server.OLLAMA_KEEP_ALIVE)
                /\ small.runtime.num_ctx <= large.runtime.num_ctx
                /\ small.runtime.num_predict <= large.runtime.num_predict
           /\ MemoryBand(other.memory_gb) < MemoryBand(system_info.memory_gb) =>
                /\ KeepAliveMinutes(small.server.OLLAMA_KEEP_ALIVE)
                     < KeepAliveMinutes(large.server.OLLAMA_KEEP_ALIVE)
                /\ small.runtime.num_ctx < large.runtime.num_ctx
                /\ small.runtime.num_predict < large.runtime.num_predict

\* C21, amended: none of keep-alive, context and output length decreases as
\* the memory grows; the bands up to 8 GB and up to 16 GB get the same
\* values, and both get smaller ones than the band above 16 GB.
C21_Amended ==
    \A other \in Profiles :
        LET small == _optimize_for_memory(other)
            large == _optimize_for_memory(system_info)
        IN /\ other.memory_gb <= system_info.memory_gb =>
                /\ KeepAliveMinutes(small.server.OLLAMA_KEEP_ALIVE)
                     <= KeepAliveMinutes(large.server.OLLAMA_KEEP_ALIVE)
                /\ small.runtime.num_ctx <= large.runtime.num_ctx
                /\ small.runtime.num_predict <= large.runtime.num_predict
           /\ (MemoryBand(other.memory_gb) < 3 /\ MemoryBand(system_info.memory_gb) = 3) =>
                /\ KeepAliveMinutes(small.server.OLLAMA_KEEP_ALIVE)
                     < KeepAliveMinutes(large.server.OLLAMA_KEEP_ALIVE)
                /\ small.runtime.num_ctx < large.runtime.num_ctx
                /\ small.runtime.num_predict < large.runtime.num_predict
           /\ (MemoryBand(other.memory_gb) < 3 /\ MemoryBand(system_info.memory_gb) < 3) =>
                small = large

\* The defaults were computed anew for a machine of the middle band, and the
\* memory tier's values are in them.
C21_Witness ==
    /\ system_info.memory_gb = 16
    /\ system_info.platform = "Darwin"
    /\ optimal_settings.runtime.num_ctx = 1024
    /\ optimal_settings.server.OLLAMA_KEEP_ALIVE = "5m"

\* --------------------------------------------------------- the CPU tier

\* The platform class _optimize_for_cpu treats as the legacy one.
Legacy(system) == system.platform = "Darwin" /\ HasIntel(system.processor)

\* C22: in the defaults of the detected machine, a legacy machine has at most
\* 4 threads and the shrunk context and output length of the CPU tier; any
\* other machine has as many threads as CPUs, and a longer context with more
\* than 4 CPUs than a machine of the same memory and GPU with 4 or fewer.
C22_CpuTier ==
    LET runtime == Defaults.runtime
        cpu == _optimize_for_cpu(system_info).runtime
    IN /\ Legacy(system_info) =>
            /\ runtime.num_thread <= 4
            /\ runtime.num_ctx = cpu.num_ctx
            /\ runtime.num_predict = cpu.num_predict
       /\ ~Legacy(system_info) =>
            /\ runtime.num_thread = system_info.cpu_count
            /\ \A other \in Profiles :
                  ( /\ ~Legacy(other)
                    /\ other.memory_gb = system_info.memory_gb
                    /\ other.gpu = system_info.gpu
                    /\ other.gpu_memory_gb = system_info.gpu_memory_gb
                    /\ other.cpu_count <= 4
                    /\ system_info.cpu_count > 4 ) =>
                  get_optimal_settings(other).runtime.num_ctx < runtime.num_ctx

\* -------------------------------------------- synchronisation and history

\* C28: the settings and the restart request a synchronisation returns are
\* determined by the detected machine and the dictionary supplied: every key
\* has the user's value if the user supplied it and the default of the machine
\* if not, whatever was synchronised before, and a restart is asked for
\* exactly when a supplied critical key differs from the machine's default.
C28_SyncFromHardware ==
    sync_result.called =>
        /\ sync_result.settings.server = Defaults.server
        /\ DOMAIN sync_result.settings.runtime = DOMAIN Defaults.runtime
        /\ DOMAIN sync_result.settings.model = DOMAIN Defaults.model
        /\ \A key \in DOMAIN Defaults.runtime :
              sync_result.settings.runtime[key] =
                  Get(user_settings, key, Defaults.runtime[key])
        /\ \A key \in DOMAIN Defaults.model :
              sync_result.settings.model[key] =
                  IF key \in DOMAIN Defaults.runtime THEN Defaults.model[key]
                  ELSE Get(user_settings, key, Defaults.model[key])
        /\ sync_result.needs_restart <=>
              \E key \in critical_params \cap DOMAIN user_settings :
                  \/ key \notin DOMAIN Defaults.runtime
                  \/ Defaults.runtime[key] # user_settings[key]

\* A synchronisation that leaves num_ctx out follows one that had set it to
\* 2048, and num_ctx is the default of the machine again.
C28_Witness ==
    /\ sync_result.called
    /\ "num_ctx" \notin DOMAIN user_settings
    /\ previous_settings.runtime.num_ctx = 2048
    /\ Defaults.runtime.num_ctx # 2048
    /\ sync_result.settings.runtime.num_ctx = Defaults.runtime.num_ctx

\* C30: the critical keys a synchronisation lists as changed are exactly the
\* supplied critical keys whose value differs from the value in effect before,
\* and a restart is asked for exactly when the list is not empty.
C30_ChangedKeysExact ==
    sync_result.called =>
        /\ sync_result.critical_params_changed =
              {key \in critical_params \cap DOMAIN user_settings :
                  \/ key \notin DOMAIN previous_settings.runtime
                  \/ previous_settings.runtime[key] # user_settings[key]}
        /\ sync_result.needs_restart <=>
              sync_result.critical_params_changed # {}

\* ------------------------------------------------- the end of a thread's run

\* The positions of the terminal signals among the signals emitted.
TerminalEvents == {i \in 1..Len(events) : events[i].sig \in {"finished", "error"}}

\* C29: a run that has ended has emitted exactly one terminal signal, finished
\* or error, as its last signal, and a run that has not ended has emitted
\* none; performance_info is emitted only by a run that completes with at
\* least one non-empty fragment, directly before finished.
C29_OneTerminalEvent ==
    /\ Terminal => TerminalEvents = {Len(events)}
    /\ ~Terminal => TerminalEvents = {}
    /\ pc = "returned" => LastEvent.sig = "finished"
    /\ pc = "raised" => LastEvent.sig = "error"
    /\ \A i \in 1..Len(events) :
          events[i].sig = "performance_info" =>
              /\ pc = "returned"
              /\ full_response # <<>>
              /\ i = Len(events) - 1

\* The primary response broke off after a fragment was signalled: the run
\* ended with error as its one terminal signal and without performance_info.
C29_Witness ==
    /\ pc = "raised"
    /\ recovery_error = None
    /\ full_response # <<>>
    /\ events[1].sig = "message_chunk"
    /\ LastEvent.sig = "error"

\* ------------------------------------------------ one response per call

\* The fragments the valid lines of one pass carried, in the order read.
PassTexts(rec, pass) ==
    LET OfPass(r) == r.valid /\ r.pass = pass
        lines == SelectSeq(rec, OfPass)
    IN [i \in 1..Len(lines) |-> lines[i].text]

\* C25: the fragments a completed call has delivered are those of exactly one
\* response of the server, the primary one or the recovery one, also when the
\* call completed by a recovery after primary fragments had been yielded.
C25_OneResponse ==
    pc = "returned" =>
        \E pass \in {"primary", "recovery"} : yielded = PassTexts(received, pass)

\* ------------------------------------------------ the stored statistics

\* OllamaAPI.get_last_generation_stats
get_last_generation_stats == last_generation_stats

\* C26: after a call that ran to completion, by its primary response or by the
\* recovery, get_last_generation_stats() is the record of that call: its
\* model, and as output_tokens the whitespace tokens of the fragments the call
\* yielded; it is neither empty nor the record of an earlier call.
C26_StatsOfThisCall ==
    timing \in {"completed", "recovered"} =>
        /\ DOMAIN get_last_generation_stats # {}
        /\ get_last_generation_stats.model = call_model
        /\ get_last_generation_stats.output_tokens = yielded_tokens

\* A step by which a generation completes.
Completes ==
    /\ timing \in {"primary", "recovery"}
    /\ timing' \in {"completed", "recovered"}

\* dict.get(key, 0) of the record stored before the step.
Before(key) == Get(last_generation_stats, key, 0)

ToolSucceeded(env) ==
    \/ /\ env.sys_platform = "darwin"
       /\ env.machine = "arm64"
       /\ env.profiler \in {"apple m1", "apple m2", "apple m4"}
    \/ env.sys_platform = "win32" /\ env.video.state = "found"
    \/ /\ env.sys_platform = "linux"
       /\ (env.nvidia_smi \notin {"raises", "fails"} \/ env.lspci = "amd")

\* C23: a detection always ends with a profile, whatever the machine answers;
\* when no detection tool of the platform has answered with an adapter the
\* profile has the GPU "unknown" with 0 GB, no guessed kind and no guessed
\* memory; and the optimizer computes complete defaults from every profile.
C23_UnknownGpuWhenUndetected ==
    environment.sys_platform # "undetected" =>
        /\ {"platform", "cpu_count", "memory_gb", "gpu"} \subseteq DOMAIN system_info
        /\ (environment.base_ok /\ ~ToolSucceeded(environment)) =>
              /\ system_info.gpu = "unknown"
              /\ Get(system_info, "gpu_memory_gb", 0) = 0
        /\ DOMAIN optimal_settings = {"server", "runtime", "model"}
        /\ {"num_thread", "num_ctx", "num_predict", "num_gpu", "low_vram"}
               \subseteq DOMAIN optimal_settings.runtime
        /\ DOMAIN optimal_settings.model # {}

\* ------------------------------------------------- the defaults of a call

\* C27: on every path of generate_stream the client's default runtime and
\* model settings and the caller's messages are what they were; and after a
\* call that completed by its recovery request, a later call with the same
\* arguments sends its primary request with the values the earlier call's
\* primary request had, not with the reduced ones.
C27_DefaultsUntouched ==
    /\ heap.default_runtime_settings = default_runtime_settings
    /\ heap.default_model_settings = default_model_settings
    /\ heap.messages = Messages
    /\ \A i \in 1..Len(frame_requests) : frame_requests[i].messages = Messages
    /\ frame_pc = "primary" =>
          /\ frame_requests[1].num_ctx =
                 Get(frame_args.kwargs, "num_ctx", default_runtime_settings.num_ctx)
          /\ frame_requests[1].num_predict =
                 Get(frame_args.kwargs, "max_tokens",
                     Get(frame_args.kwargs, "num_predict",
                         default_model_settings.num_predict))
          /\ (recovered.happened /\ recovered.args = frame_args) =>
                 frame_requests[1] = recovered.sent[1]

\* A call asked for 4096 and 2048, completed by its recovery request with 1024
\* and 512, and the next call with the same arguments has sent 4096 and 2048.
C27_Witness ==
    /\ recovered.happened
    /\ recovered.args = frame_args
    /\ frame_pc = "primary"
    /\ recovered.sent[1].num_ctx = 4096 /\ recovered.sent[2].num_ctx = 1024
    /\ recovered.sent[1].num_predict = 2048 /\ recovered.sent[2].num_predict = 512
    /\ frame_requests[1].num_ctx = 4096
    /\ frame_requests[1].num_predict = 2048

====
